---- MODULE Spec2Model ----
(***************************************************************************)
(* Backend sidecar supervisor of src-tauri/src/main.rs: the boot task      *)
(* (boot_sequence), the shared slot Arc<Mutex<Option<Child>>>, and the     *)
(* terminate_backend calls coming from the window CloseRequested handler   *)
(* and from the shutdown_backend command.                                  *)
(***************************************************************************)
EXTENDS Integers, Sequences, FiniteSets

(* ------------------------------------------------------------------ *)
(* Bounds and program constants                                        *)
(* ------------------------------------------------------------------ *)

\* Number of shutdown_backend invocations the frontend issues in one run.
MaxCommands == 2

\* Number of candidate paths that exist on disk in one run.
MaxExisting == 2

\* for _ in 0..50 (wait_for_port_file)
HandshakeAttempts == 50

\* for _ in 0..40 (wait_for_health)
HealthAttempts == 40

\* Handshake.port : u16
U16Max == 65535

(* ------------------------------------------------------------------ *)
(* Values                                                              *)
(* ------------------------------------------------------------------ *)

\* Option<T>
None == [some |-> FALSE, val |-> 0]
Some(v) == [some |-> TRUE, val |-> v]

\* Call 0 is the terminate_backend call made by the CloseRequested handler;
\* calls 1..MaxCommands are shutdown_backend invocations, in invocation order.
WindowCall == 0
CallIds == 0..MaxCommands
CommandCalls == 1..MaxCommands

\* Contents of the handshake file.  "partial" is a file the child has only
\* partly written; a "json" file holds {"port": port}.
FileMissing == [kind |-> "missing", port |-> 0]
FilePartial == [kind |-> "partial", port |-> 0]
FileJson(p) == [kind |-> "json", port |-> p]

\* Port numbers a child writes: two valid ones and one outside u16.
WrittenPorts == {4000, 4001, 70000}

\* Outcomes of one GET /healthz: no connection, the 2 s timeout, or a status.
HealthResponse(k, st) == [kind |-> k, status |-> st]
HealthResponses ==
    {HealthResponse("connect_error", 0), HealthResponse("timeout", 0)}
        \cup {HealthResponse("http", st) : st \in {200, 204, 404, 503}}

\* A string is a sequence of glyphs; the glyph " " is whitespace, every
\* other glyph stands for a run of non-whitespace characters.
\* An environment variable as std::env::var sees it: unset, set to a value
\* that is not valid Unicode (val is the value as the OS holds it), or set
\* to a string.
EnvUnset == [st |-> "unset", val |-> <<>>]
EnvNotUnicode(v) == [st |-> "notunicode", val |-> v]
EnvSet(v) == [st |-> "set", val |-> v]

\* Option<PathBuf>; a path is the sequence of its components.
NoDir == [some |-> FALSE, val |-> <<>>]
SomeDir(d) == [some |-> TRUE, val |-> d]

VARIABLES
    env,          \* the environment of the run: variables, platform, disk
    launch,       \* the Command built by spawn_backend
    errInfo,      \* what the error returned by boot_sequence carries
    bootpc,       \* position of the boot task in boot_sequence
    bootErr,      \* the error boot_sequence returned, "none" if none
    bootChild,    \* the local `child` of boot_sequence
    port,         \* the local `port` of boot_sequence
    slot,         \* *state : Option<Child>
    lock,         \* holder of the tokio Mutex: None, or Some(call id)
    proc,         \* the child process: "none", "running", "exited", "reaped"
    file,         \* contents of the handshake file
    window,       \* the main window: "open", "closing", "destroyed"
    calls,        \* the terminate_backend calls
    hsReads,      \* read attempts made by wait_for_port_file
    hsSleeps,     \* 200 ms delays completed by wait_for_port_file
    healthPolls,  \* requests sent by wait_for_health
    healthSleeps, \* 250 ms delays completed by wait_for_health
    healthUrl,    \* the url probed by wait_for_health
    navUrls,      \* the urls passed to window.eval, in order
    diag,         \* lines written to stderr
    hist          \* history: counters and observations used by the properties

vars == <<env, launch, errInfo, bootpc, bootErr, bootChild, port, slot, lock, proc, file, window,
          calls, hsReads, hsSleeps, healthPolls, healthSleeps, healthUrl,
          navUrls, diag, hist>>

bootVars == <<env, launch, errInfo, bootpc, bootErr, bootChild, port, hsReads, hsSleeps,
              healthPolls, healthSleeps, healthUrl, navUrls, diag>>

(* ------------------------------------------------------------------ *)
(* Pure helpers                                                        *)
(* ------------------------------------------------------------------ *)

\* fs::read_to_string(&path): Err when the file is missing.
ReadToString(f) == IF f.kind = "missing" THEN None ELSE Some(f)

\* serde_json::from_str::<Handshake>: the contents must be a complete JSON
\* object whose port fits u16.
ParseHandshake(contents) ==
    IF contents.kind = "json" /\ contents.port \in 0..U16Max
    THEN Some(contents.port)
    ELSE None

\* One attempt of wait_for_port_file: the port, or None for "not ready yet".
ReadPort(f) ==
    IF ReadToString(f).some THEN ParseHandshake(ReadToString(f).val) ELSE None

\* format!("http://127.0.0.1:{port}/healthz")
HealthUrl(p) == [host |-> "127.0.0.1", port |-> p, path |-> "/healthz"]

\* Variant of NavUrl: the url is built with a fixed port.
NavUrlFixedPort(p) == [host |-> "127.0.0.1", port |-> 4000, path |-> ""]

\* format!("window.location.replace('http://127.0.0.1:{port}');")
NavUrl(p) == [host |-> "127.0.0.1", port |-> p, path |-> ""]

NoUrl == [host |-> "", port |-> 0, path |-> ""]

\* Variant of IsHealthy: only 200 OK counts as success.
IsHealthyOnly200(resp) == resp.kind = "http" /\ resp.status = 200

\* if let Ok(response) = send().await { if response.status().is_success() ..
IsHealthy(resp) == resp.kind = "http" /\ resp.status \in 200..299

\* Variant of HsMore: the loop test is off by one.
HsMoreOffByOne(done) == done <= HandshakeAttempts

\* for _ in 0..50: after `done` iterations, is there another one?
HsMore(done) == done < HandshakeAttempts

\* Variant of HealthMore: the loop test is off by one.
HealthMoreOffByOne(done) == done <= HealthAttempts

\* for _ in 0..40: after `done` iterations, is there another one?
HealthMore(done) == done < HealthAttempts

\* Variant of WindowAvailable: the window is assumed to exist.
WindowAvailableAlways(w) == TRUE

\* app.get_window("main")
WindowAvailable(w) == w # "destroyed"

\* Variant of Take: the handle is read and left in the slot.
TakeKeep(s) == [taken |-> s, left |-> s]

\* guard.take(): the value taken and the value left in the slot.
Take(s) == [taken |-> s, left |-> None]

\* Variant of AfterTake: kill and wait whatever was taken.
AfterTakeAlwaysKill(taken) == "kill"

\* if let Some(mut child) = taken { kill; wait }: where the call goes next.
AfterTake(taken) == IF taken.some THEN "kill" ELSE "ret"

\* Variant of MovedFrom: the local keeps the handle it published.
MovedFromKeep(c) == c

\* *guard = Some(child) moves `child`: what the local holds afterwards.
MovedFrom(c) == None

\* Variant of HsStep: the loop goes on after a successful read.
HsStepKeepPolling(r) == "hs_sleep"

\* The loop body of wait_for_port_file after the read: return or sleep.
HsStep(r) == IF r.some THEN "hs_done" ELSE "hs_sleep"

\* Variant of TerminateResult: kill and wait errors are propagated.
TerminateResultPropagated(killRes, waitRes) ==
    IF killRes = "err" \/ waitRes = "err" THEN "Err" ELSE "Ok"

\* terminate_backend: `let _ =` discards both results, then Ok(()).
TerminateResult(killRes, waitRes) == "Ok"

\* shutdown_backend: .map_err(|err| err.to_string())
ShutdownBackendResult(r) == IF r = "Ok" THEN "Ok" ELSE "ErrText"

\* The handshake file is readable and holds a parsable {"port": p}.
Announces(f) == f.kind = "json" /\ f.port >= 0 /\ f.port <= U16Max

NotRunning(p) == p \in {"none", "exited", "reaped"}

BootFinished == bootpc \in {"ready", "failed"}


(* ------------------------------------------------------------------ *)
(* Path resolution and the launch spec                                 *)
(* ------------------------------------------------------------------ *)

\* env_path.trim().is_empty()
IsBlank(str) == \A i \in 1..Len(str) : str[i] = " "

\* value.split_whitespace().map(String::from).collect()
RECURSIVE SplitFrom(_, _, _, _)
SplitFrom(str, i, word, out) ==
    IF i > Len(str)
    THEN (IF word = <<>> THEN out ELSE Append(out, word))
    ELSE IF str[i] = " "
         THEN SplitFrom(str, i + 1, <<>>,
                        IF word = <<>> THEN out ELSE Append(out, word))
         ELSE SplitFrom(str, i + 1, Append(word, str[i]), out)

SplitWhitespace(str) == SplitFrom(str, 1, <<>>, <<>>)

\* Path::parent: None for the root.
Parent(dir) == IF dir = <<>> THEN NoDir ELSE SomeDir(SubSeq(dir, 1, Len(dir) - 1))

\* The three file names tried in each bundled location.
BundleNames ==
    <<"hudson_macos_arm-aarch64-apple-darwin", "hudson_macos_arm",
      "hudson_backend">>

\* dir.join(name) for each of the three names.
InDir(dir) == [i \in 1..3 |-> Append(dir, BundleNames[i])]

\* candidate_backend_paths: the HUDSON_BACKEND_BIN candidate.
EnvCandidate(bin) ==
    IF bin.st = "set" /\ ~IsBlank(bin.val) THEN <<bin.val>> ELSE <<>>

\* candidate_backend_paths: the candidates under the resource directory.
BundledCandidates(resourceDir) ==
    IF resourceDir.some
    THEN (IF Parent(resourceDir.val).some
          THEN InDir(Append(Parent(resourceDir.val).val, "MacOS"))
          ELSE <<>>)
         \o InDir(Append(resourceDir.val, "binaries"))
         \o InDir(resourceDir.val)
    ELSE <<>>

\* candidate_backend_paths: the development paths, by cfg!(target_os).
DevCandidates(os) ==
    IF os = "windows"
    THEN << <<"..", "burrito_out", "hudson_windows.exe">>,
            <<"..", "_build", "prod", "rel", "hudson", "bin", "hudson.bat">> >>
    ELSE << <<"..", "burrito_out", "hudson_macos_arm">>,
            <<"..", "burrito_out", "hudson_macos_intel">>,
            <<"..", "_build", "prod", "rel", "hudson", "bin", "hudson">> >>

CandidateBackendPaths(e) ==
    EnvCandidate(e.bin) \o BundledCandidates(e.resourceDir)
        \o DevCandidates(e.os)

\* candidates.iter().find(|path| path.exists()): the index found, 0 if none.
FirstExisting(candidates, exists) ==
    IF \E i \in 1..Len(candidates) : candidates[i] \in exists
    THEN CHOOSE i \in 1..Len(candidates) :
            /\ candidates[i] \in exists
            /\ \A j \in 1..(i - 1) : candidates[j] \notin exists
    ELSE 0

\* path_str.contains("burrito_out")
ContainsBurrito(path) == \E i \in 1..Len(path) : path[i] = "burrito_out"

\* default_args_for
DefaultArgsFor(executable) ==
    IF ContainsBurrito(executable) THEN <<>> ELSE << <<"foreground">> >>

\* spawn_backend: HUDSON_BACKEND_ARGS, else the default arguments.
ArgsFor(e, executable) ==
    IF e.args.st = "set"
    THEN SplitWhitespace(e.args.val)
    ELSE DefaultArgsFor(executable)

\* Variant of EnableNeon: the default enables the networked store.
EnableNeonDefaultTrue(e) == IF e.neon.st = "set" THEN e.neon.val ELSE <<"true">>

\* spawn_backend: the HUDSON_ENABLE_NEON given to the child.
EnableNeon(e) == IF e.neon.st = "set" THEN e.neon.val ELSE <<"false">>

\* neon is the HUDSON_ENABLE_NEON entry of the child's environment overlay,
\* None while the Command has no such entry.
NoLaunch == [built |-> FALSE, exe |-> <<>>, args |-> <<>>, neon |-> None]

\* The Command spawn_backend builds for the environment e.
LaunchSpec(e) ==
    LET cands == CandidateBackendPaths(e)
        exe == cands[FirstExisting(cands, e.exists)]
    IN [built |-> TRUE, exe |-> exe, args |-> ArgsFor(e, exe),
        neon |-> Some(EnableNeon(e))]

\* handshake_path, by cfg!(target_os); the base directory of the last two
\* comes from APPDATA or std::env::temp_dir().
HandshakePath(os) ==
    IF os = "macos" THEN <<"tmp", "hudson_port.json">>
    ELSE IF os = "windows" THEN <<"appdata_or_temp", "Hudson", "port.json">>
    ELSE <<"temp_dir", "hudson_port.json">>

NoErrInfo == [path |-> <<>>, url |-> NoUrl, tried |-> <<>>]

(* ------------------------------------------------------------------ *)
(* Environments                                                        *)
(* ------------------------------------------------------------------ *)

Platforms == {"macos", "windows", "linux"}

BinValues ==
    {EnvUnset, EnvNotUnicode(<<"opt_hudson_xFF">>)}
        \cup {EnvSet(v) : v \in {<<>>, <<" ">>, <<"opt_hudson">>,
                                 <<"burrito_out">>}}

ArgValues ==
    {EnvUnset, EnvNotUnicode(<<"start_xFF">>)}
        \cup {EnvSet(v) : v \in {<<>>, <<" ">>, <<"start">>,
                                 <<" ", "start", " ", " ", "-x", "y">>}}

NeonValues ==
    {EnvUnset, EnvNotUnicode(<<"true_xFF">>)}
        \cup {EnvSet(v) : v \in {<<"true">>, <<"false">>, <<>>}}

ResourceDirs == {NoDir, SomeDir(<<>>), SomeDir(<<"App", "Contents", "Resources">>)}

Range(seq) == {seq[i] : i \in 1..Len(seq)}

\* The subsets of S with at most k elements.
RECURSIVE SubsetsUpTo(_, _)
SubsetsUpTo(S, k) ==
    IF k = 0 THEN {{}}
    ELSE SubsetsUpTo(S, k - 1)
            \cup {x \cup {e} : x \in SubsetsUpTo(S, k - 1), e \in S}

\* The environments with platform o, override b, resource directory d and
\* one of the given sets of existing files.
\* spawn_backend reads HUDSON_BACKEND_ARGS and HUDSON_ENABLE_NEON
\* independently of each other: the universe varies one of them at a time.
ArgNeonPairs ==
    {<<a, EnvUnset>> : a \in ArgValues} \cup {<<EnvUnset, n>> : n \in NeonValues}

EnvsWith(o, b, d, existing) ==
    {[os |-> o, bin |-> b, resourceDir |-> d, exists |-> x,
      args |-> an[1], neon |-> an[2]] :
        x \in existing, an \in ArgNeonPairs}

\* The file HUDSON_BACKEND_BIN names on disk, whatever its encoding.
OverrideFile(b) == IF b.st = "unset" \/ IsBlank(b.val) THEN {} ELSE {b.val}

\* The files that may exist: the override's and the candidates'.
EnvsOver(o, b, d, k) ==
    EnvsWith(o, b, d,
             SubsetsUpTo(OverrideFile(b)
                            \cup Range(EnvCandidate(b) \o BundledCandidates(d)
                                         \o DevCandidates(o)), k))

\* Every environment in which at most k candidate paths exist.
LaunchEnvs(k) ==
    UNION {EnvsOver(o, b, d, k) : o \in Platforms, b \in BinValues,
                                  d \in ResourceDirs}

\* A development checkout: only the release build exists.
DevEnv ==
    [os |-> "macos", bin |-> EnvUnset, resourceDir |-> NoDir,
     exists |-> {<<"..", "_build", "prod", "rel", "hudson", "bin", "hudson">>},
     args |-> EnvUnset, neon |-> EnvUnset]

(* ------------------------------------------------------------------ *)
(* Initial state: main() has built the app, the slot is Mutex::new(None),  *)
(* the main window exists and the boot task has been spawned.          *)
(* ------------------------------------------------------------------ *)

IdleCall == [pc |-> "idle", took |-> None, killRes |-> "-", waitRes |-> "-",
             ret |-> "-", afterBoot |-> FALSE, prevOp |-> "-"]

\* A handshake file left by an earlier run.
StaleFile == FileJson(3999)

\* The state main() leaves behind, the environment apart.
InitRun ==
    /\ bootpc = "start"
    /\ bootErr = "none"
    /\ bootChild = None
    /\ port = None
    /\ slot = None
    /\ lock = None
    /\ proc = "none"
    /\ file \in {FileMissing, StaleFile}
    /\ window = "open"
    /\ calls = [t \in CallIds |-> IdleCall]
    /\ hsReads = 0
    /\ hsSleeps = 0
    /\ healthPolls = 0
    /\ healthSleeps = 0
    /\ healthUrl = NoUrl
    /\ navUrls = <<>>
    /\ diag = <<>>
    /\ hist = [spawnCount |-> 0, publishCount |-> 0, killCount |-> 0,
               waitCount |-> 0, overwrote |-> FALSE, lastSlotOp |-> "none",
               windowAtHealth |-> "-", hsFirstOk |-> 0, hsFirstPort |-> None,
               hsEver |-> FALSE, healthEver |-> FALSE, healthFirstOk |-> 0]
    /\ launch = NoLaunch
    /\ errInfo = NoErrInfo

\* The environments of Spec: the development checkout, and the
\* environments in which no candidate path exists and the other overrides
\* are unset.
SpecEnvs ==
    {DevEnv} \cup {e \in LaunchEnvs(0) : e.args = EnvUnset /\ e.neon = EnvUnset}

Init ==
    /\ env \in SpecEnvs
    /\ InitRun

\* Every environment of the bounded universe, for the launch spec.
InitLaunch ==
    /\ env \in LaunchEnvs(MaxExisting)
    /\ InitRun

(* ------------------------------------------------------------------ *)
(* The boot task                                                       *)
(* ------------------------------------------------------------------ *)

\* Variant of ErrInfoFor: BackendNotFound names only the last candidate.
ErrInfoForLastOnly(err) ==
    IF err = "BackendNotFound"
    THEN [NoErrInfo EXCEPT !.tried =
            <<CandidateBackendPaths(env)[Len(CandidateBackendPaths(env))]>>]
    ELSE IF err = "HandshakeTimeout"
    THEN [NoErrInfo EXCEPT !.path = HandshakePath(env.os)]
    ELSE IF err = "HealthCheckTimeout"
    THEN [NoErrInfo EXCEPT !.url = healthUrl]
    ELSE NoErrInfo

\* What the anyhow error of each kind is built from: the candidate list
\* (spawn_backend), the handshake path (wait_for_port_file), the probed url
\* (wait_for_health).
ErrInfoFor(err) ==
    IF err = "BackendNotFound"
    THEN [NoErrInfo EXCEPT !.tried = CandidateBackendPaths(env)]
    ELSE IF err = "HandshakeTimeout"
    THEN [NoErrInfo EXCEPT !.path = HandshakePath(env.os)]
    ELSE IF err = "HealthCheckTimeout"
    THEN [NoErrInfo EXCEPT !.url = healthUrl]
    ELSE NoErrInfo

\* Variant of BootFail: a failed boot starts over.
BootFailRetry(err, log) ==
    /\ bootpc' = "start"
    /\ bootErr' = err
    /\ errInfo' = ErrInfoFor(err)
    /\ bootChild' = None
    /\ diag' = diag \o log \o <<"Backend boot failed">>

\* boot_sequence returns Err(err): its locals are dropped (dropping a Child
\* neither kills nor waits for the process) and main's wrapper logs it.
BootFail(err, log) ==
    /\ bootpc' = "failed"
    /\ bootErr' = err
    /\ errInfo' = ErrInfoFor(err)
    /\ bootChild' = None
    /\ diag' = diag \o log \o <<"Backend boot failed">>

\* spawn_backend: resolve the executable among the candidates, build the
\* Command, spawn; `osOk` says whether the OS creates the process.
BootSpawn ==
    /\ bootpc = "start"
    /\ IF FirstExisting(CandidateBackendPaths(env), env.exists) = 0
       THEN /\ BootFail("BackendNotFound", <<"Boot sequence started">>)
            /\ UNCHANGED <<launch, proc, hist>>
       ELSE /\ launch' = LaunchSpec(env)
            /\ \E osOk \in BOOLEAN :
                IF ~osOk
                THEN /\ BootFail("SpawnFailed", <<"Boot sequence started">>)
                     /\ UNCHANGED <<proc, hist>>
                ELSE /\ bootpc' = "hs_read"
                     /\ bootChild' = Some(hist.spawnCount + 1)
                     /\ proc' = "running"
                     /\ hist' = [hist EXCEPT !.spawnCount = @ + 1]
                     /\ diag' = diag \o <<"Boot sequence started",
                                          "Backend spawned">>
                     /\ UNCHANGED <<errInfo, bootErr>>
    /\ UNCHANGED <<env, port, slot, lock, file, window, calls, hsReads, hsSleeps,
                   healthPolls, healthSleeps, healthUrl, navUrls>>

\* wait_for_port_file, one loop iteration up to the sleep: read and parse.
HsAttempt ==
    /\ bootpc = "hs_read"
    /\ UNCHANGED <<env, launch>>
    /\ hsReads' = hsReads + 1
    /\ hist' = [hist EXCEPT
                  !.hsEver = TRUE,
                  !.hsFirstOk = IF @ = 0 /\ Announces(file)
                                THEN hsReads + 1 ELSE @,
                  !.hsFirstPort = IF hist.hsFirstOk = 0 /\ Announces(file)
                                  THEN Some(file.port) ELSE @]
    /\ port' = IF ReadPort(file).some THEN ReadPort(file) ELSE port
    /\ bootpc' = HsStep(ReadPort(file))
    /\ UNCHANGED <<errInfo, bootErr, bootChild, slot, lock, proc, file, window, calls,
                   hsSleeps, healthPolls, healthSleeps, healthUrl, navUrls, diag>>

\* sleep(200 ms) and the loop test; after the last iteration the Err.
HsSleep ==
    /\ bootpc = "hs_sleep"
    /\ UNCHANGED <<env, launch>>
    /\ hsSleeps' = hsSleeps + 1
    /\ IF HsMore(hsSleeps + 1)
       THEN /\ bootpc' = "hs_read"
            /\ UNCHANGED <<errInfo, bootErr, bootChild, diag>>
       ELSE BootFail("HandshakeTimeout", <<>>)
    /\ UNCHANGED <<port, slot, lock, proc, file, window, calls, hsReads,
                   healthPolls, healthSleeps, healthUrl, navUrls, hist>>

\* Back in boot_sequence with the port: the log line, then wait_for_health
\* builds its url and its client (Client::builder().build()?).  The frame
\* of wait_for_port_file is gone, and its iteration counts with it.
BootGotPort ==
    /\ bootpc = "hs_done"
    /\ UNCHANGED <<env, launch>>
    /\ hsReads' = 0
    /\ hsSleeps' = 0
    /\ healthUrl' = HealthUrl(port.val)
    /\ \E built \in BOOLEAN :
        IF built
        THEN /\ bootpc' = "health_poll"
             /\ diag' = Append(diag, "Got port from handshake")
             /\ UNCHANGED <<errInfo, bootErr, bootChild>>
        ELSE BootFail("ClientBuildFailed", <<"Got port from handshake">>)
    /\ hist' = [hist EXCEPT !.hsFirstOk = 0]
    /\ UNCHANGED <<port, slot, lock, proc, file, window, calls, healthPolls,
                   healthSleeps, navUrls>>

\* wait_for_health, one loop iteration up to the sleep: one GET.
HealthPoll ==
    /\ bootpc = "health_poll"
    /\ UNCHANGED <<env, launch>>
    /\ healthPolls' = healthPolls + 1
    /\ \E resp \in HealthResponses :
        LET got2xx == resp.kind = "http" /\ resp.status >= 200
                                         /\ resp.status <= 299
            first == IF hist.healthFirstOk = 0 /\ got2xx
                     THEN healthPolls + 1 ELSE hist.healthFirstOk
        IN  IF IsHealthy(resp)
            THEN /\ bootpc' = "health_done"
                 /\ hist' = [hist EXCEPT !.healthEver = TRUE,
                                         !.healthFirstOk = first,
                                         !.windowAtHealth = window]
            ELSE /\ bootpc' = "health_sleep"
                 /\ hist' = [hist EXCEPT !.healthEver = TRUE,
                                         !.healthFirstOk = first]
    /\ UNCHANGED <<errInfo, bootErr, bootChild, port, slot, lock, proc, file, window,
                   calls, hsReads, hsSleeps, healthSleeps, healthUrl, navUrls,
                   diag>>

\* sleep(250 ms) and the loop test; after the last iteration the Err.
HealthSleep ==
    /\ bootpc = "health_sleep"
    /\ UNCHANGED <<env, launch>>
    /\ healthSleeps' = healthSleeps + 1
    /\ IF HealthMore(healthSleeps + 1)
       THEN /\ bootpc' = "health_poll"
            /\ UNCHANGED <<errInfo, bootErr, bootChild, diag>>
       ELSE BootFail("HealthCheckTimeout", <<>>)
    /\ UNCHANGED <<port, slot, lock, proc, file, window, calls, hsReads,
                   hsSleeps, healthPolls, healthUrl, navUrls, hist>>

\* Back in boot_sequence after wait_for_health returned Ok.
BootHealthPassed ==
    /\ bootpc = "health_done"
    /\ UNCHANGED <<env, launch>>
    /\ bootpc' = "publish"
    /\ healthPolls' = 0
    /\ healthSleeps' = 0
    /\ diag' = Append(diag, "Health check passed")
    /\ hist' = [hist EXCEPT !.healthFirstOk = 0]
    /\ UNCHANGED <<errInfo, bootErr, bootChild, port, slot, lock, proc, file, window,
                   calls, hsReads, hsSleeps, healthUrl, navUrls>>

\* Variant of BootPublish: the handle is published before the health probe
\* has passed.
BootPublishBeforeHealth ==
    /\ bootpc = "health_poll"
    /\ hist.publishCount = 0
    /\ lock = None
    /\ slot' = bootChild
    /\ hist' = [hist EXCEPT !.publishCount = @ + 1,
                            !.overwrote = @ \/ slot.some,
                            !.lastSlotOp = "publish"]
    /\ UNCHANGED <<env, launch, errInfo, bootpc, bootErr, bootChild, port,
                   lock, proc, file, window, calls, hsReads, hsSleeps,
                   healthPolls, healthSleeps, healthUrl, navUrls, diag>>

\* Variant of BootPublish: the guard is kept after the write.
BootPublishKeepsLock ==
    /\ bootpc = "publish"
    /\ lock = None
    /\ lock' = Some(MaxCommands + 1)
    /\ slot' = bootChild
    /\ bootChild' = None
    /\ bootpc' = "navigate"
    /\ hist' = [hist EXCEPT !.publishCount = @ + 1,
                            !.overwrote = @ \/ slot.some,
                            !.lastSlotOp = "publish"]
    /\ UNCHANGED <<env, launch, errInfo, bootErr, port, proc, file, window,
                   calls, hsReads, hsSleeps, healthPolls, healthSleeps,
                   healthUrl, navUrls, diag>>

\* { let mut guard = state.lock().await; *guard = Some(child); }
\* The guard is dropped at the end of the block, with no await in between.
BootPublish ==
    /\ bootpc = "publish"
    /\ UNCHANGED <<env, launch>>
    /\ lock = None
    /\ slot' = bootChild
    /\ bootChild' = MovedFrom(bootChild)
    /\ bootpc' = "navigate"
    /\ hist' = [hist EXCEPT !.publishCount = @ + 1,
                            !.overwrote = @ \/ slot.some,
                            !.lastSlotOp = "publish"]
    /\ UNCHANGED <<errInfo, bootErr, port, lock, proc, file, window, calls, hsReads,
                   hsSleeps, healthPolls, healthSleeps, healthUrl, navUrls,
                   diag>>

\* if let Some(window) = app.get_window("main") { window.eval(..)? } else Err
BootNavigate ==
    /\ bootpc = "navigate"
    /\ UNCHANGED <<env, launch>>
    /\ IF WindowAvailable(window)
       THEN /\ navUrls' = Append(navUrls, NavUrl(port.val))
            /\ \E evalOk \in BOOLEAN :
                IF evalOk
                THEN /\ bootpc' = "ready"
                     /\ diag' = diag \o <<"Navigating window",
                                          "Navigation command sent">>
                     /\ UNCHANGED <<errInfo, bootErr, bootChild>>
                ELSE BootFail("NavigationFailed", <<"Navigating window">>)
       ELSE /\ navUrls' = navUrls
            /\ BootFail("PresentationMissing", <<>>)
    /\ UNCHANGED <<port, slot, lock, proc, file, window, calls, hsReads,
                   hsSleeps, healthPolls, healthSleeps, healthUrl, hist>>

(* ------------------------------------------------------------------ *)
(* terminate_backend calls                                             *)
(* ------------------------------------------------------------------ *)

StartCall(t) ==
    calls' = [calls EXCEPT ![t].pc = "lock", ![t].afterBoot = BootFinished]

\* on_window_event: CloseRequested runs terminate_backend under block_on,
\* so the GUI thread waits for it.
CloseRequested ==
    /\ window = "open"
    /\ window' = "closing"
    /\ StartCall(WindowCall)
    /\ UNCHANGED <<bootVars, slot, lock, proc, file, hist>>

\* The handler has returned and the window is closed.
WindowDestroyed ==
    /\ window = "closing"
    /\ calls[WindowCall].pc = "done"
    /\ window' = "destroyed"
    /\ UNCHANGED <<bootVars, slot, lock, proc, file, calls, hist>>

\* The frontend invokes the shutdown_backend command.
InvokeShutdown(t) ==
    /\ t \in CommandCalls
    /\ calls[t].pc = "idle"
    /\ t = 1 \/ calls[t - 1].pc # "idle"
    /\ window # "destroyed"
    /\ StartCall(t)
    /\ UNCHANGED <<bootVars, slot, lock, proc, file, window, hist>>

\* let mut guard = state.lock().await; if let Some(mut child) = guard.take()
TermLock(t) ==
    /\ calls[t].pc = "lock"
    /\ lock = None
    /\ lock' = Some(t)
    /\ slot' = Take(slot).left
    /\ calls' = [calls EXCEPT
                   ![t].took = Take(slot).taken,
                   ![t].prevOp = hist.lastSlotOp,
                   ![t].pc = AfterTake(Take(slot).taken)]
    /\ UNCHANGED <<bootVars, proc, file, window, hist>>

\* let _ = child.kill();  The OS may carry the kill out or reject it.
TermKill(t) ==
    /\ calls[t].pc = "kill"
    /\ \E ok \in BOOLEAN :
        /\ calls' = [calls EXCEPT ![t].killRes = IF ok THEN "ok" ELSE "err",
                                  ![t].pc = "wait"]
        /\ proc' = IF ok /\ proc = "running" THEN "exited" ELSE proc
    /\ hist' = [hist EXCEPT !.killCount = @ + 1]
    /\ UNCHANGED <<bootVars, slot, lock, file, window>>

\* let _ = child.wait();  Blocks until the process has exited, then reaps
\* it; or fails.
TermWait(t) ==
    /\ calls[t].pc = "wait"
    /\ \/ /\ proc = "exited"
          /\ proc' = "reaped"
          /\ calls' = [calls EXCEPT ![t].waitRes = "ok", ![t].pc = "ret"]
       \/ /\ proc' = proc
          /\ calls' = [calls EXCEPT ![t].waitRes = "err", ![t].pc = "ret"]
    /\ hist' = [hist EXCEPT !.waitCount = @ + 1]
    /\ UNCHANGED <<bootVars, slot, lock, file, window>>

\* Ok(()) and the guard is dropped; shutdown_backend maps the result, the
\* window handler discards it.
TermReturn(t) ==
    /\ calls[t].pc = "ret"
    /\ lock = Some(t)
    /\ lock' = None
    /\ calls' = [calls EXCEPT
                   ![t].pc = "done",
                   ![t].ret =
                       IF t = WindowCall
                       THEN TerminateResult(calls[t].killRes, calls[t].waitRes)
                       ELSE ShutdownBackendResult(
                               TerminateResult(calls[t].killRes, calls[t].waitRes))]
    /\ hist' = [hist EXCEPT !.lastSlotOp = "terminate"]
    /\ UNCHANGED <<bootVars, slot, proc, file, window>>

(* ------------------------------------------------------------------ *)
(* The child process                                                   *)
(* ------------------------------------------------------------------ *)

\* The child exits on its own.
ChildExits ==
    /\ proc = "running"
    /\ proc' = "exited"
    /\ UNCHANGED <<bootVars, slot, lock, file, window, calls, hist>>

\* The child writes its handshake file, possibly in several steps.
ChildWrites ==
    /\ proc = "running"
    /\ file' \in ({FilePartial} \cup {FileJson(p) : p \in WrittenPorts}) \ {file}
    /\ UNCHANGED <<bootVars, slot, lock, proc, window, calls, hist>>

Next ==
    \/ BootSpawn
    \/ HsAttempt
    \/ HsSleep
    \/ BootGotPort
    \/ HealthPoll
    \/ HealthSleep
    \/ BootHealthPassed
    \/ BootPublish
    \/ BootNavigate
    \/ CloseRequested
    \/ WindowDestroyed
    \/ \E t \in CommandCalls : InvokeShutdown(t)
    \/ \E t \in CallIds : TermLock(t)
    \/ \E t \in CallIds : TermKill(t)
    \/ \E t \in CallIds : TermWait(t)
    \/ \E t \in CallIds : TermReturn(t)
    \/ ChildExits
    \/ ChildWrites

Spec == Init /\ [][Next]_vars

\* spawn_backend applied to every environment.
SpecLaunch == InitLaunch /\ [][BootSpawn]_vars

\* The lock holder's next step: kill, wait or the return.
TermHolderStep ==
    \E t \in CallIds : TermKill(t) \/ TermWait(t) \/ TermReturn(t)

\* Some waiting call acquires the Mutex.
TermAcquire == \E t \in CallIds : TermLock(t)

\* The tokio runtime keeps running the terminate_backend calls: while the
\* Mutex stays free and a call waits for it, some call gets it, and the
\* holder's kill, wait and return complete.  Nothing is assumed of the
\* boot task or of the child.
TerminateFairness ==
    /\ WF_vars(TermAcquire)
    /\ WF_vars(TermHolderStep)

\* A first start of the development checkout: no handshake file yet.
InitFair ==
    /\ env = DevEnv
    /\ file = FileMissing
    /\ InitRun

SpecFair == InitFair /\ [][Next]_vars /\ TerminateFairness

(* ------------------------------------------------------------------ *)
(* Properties                                                          *)
(* ------------------------------------------------------------------ *)

Done(t) == calls[t].pc = "done"

\* The OS carried out every kill and every wait asked of it so far.
NoOsFailure ==
    \A t \in CallIds : calls[t].killRes # "err" /\ calls[t].waitRes # "err"

\* The calls that took a handle out of the slot.
Takers == {t \in CallIds : calls[t].took.some}

\* C1: whatever the interleaving of the boot task's publish with a
\* terminate_backend call, once the publish and a terminate call have both
\* completed the slot is empty and the child is not running, and the child
\* was not killed twice.  Stated for the executions in which the OS carried
\* out every kill and wait, so that a violation is the supervisor's own.
C1_RaceLeavesNoChild ==
    (hist.publishCount > 0 /\ (\E t \in CallIds : Done(t)) /\ NoOsFailure)
        => (slot = None /\ NotRunning(proc) /\ hist.killCount <= 1)

\* The outcomes of the boot task that C2 names.
NamedOutcome ==
    \/ bootpc = "ready"
    \/ /\ bootpc = "failed"
       /\ bootErr \in {"BackendNotFound", "SpawnFailed", "HandshakeTimeout",
                       "HealthCheckTimeout", "PresentationMissing"}

\* C2: once the boot task has finished, in Ready or in one of the named
\* Failed outcomes, and a terminate_backend call started after that has
\* returned, no child spawned by the supervisor is still running.  Stated
\* for the executions in which the OS carried out every kill and wait.
C2_TerminatedAfterBoot ==
    (NamedOutcome /\ NoOsFailure
        /\ \E t \in CallIds : Done(t) /\ calls[t].afterBoot)
        => NotRunning(proc)

\* C3: terminate_backend is idempotent.  A call that follows a terminate
\* call with no publish in between, or that runs on a slot never published
\* to, finds the slot empty; a call that finds the slot empty performs no
\* kill and no wait, leaves the slot empty and returns success; and every
\* call leaves the slot empty when it returns.
C3_TerminateIdempotent ==
    /\ \A t \in CallIds :
        /\ (calls[t].prevOp \in {"none", "terminate"}) => ~calls[t].took.some
        /\ (calls[t].pc \in {"ret", "done"} /\ ~calls[t].took.some)
             => (calls[t].killRes = "-" /\ calls[t].waitRes = "-")
        /\ (calls[t].pc \in {"kill", "wait"}) => calls[t].took.some
        /\ (Done(t) /\ ~calls[t].took.some) => calls[t].ret = "Ok"
        /\ (calls[t].pc \in {"kill", "wait", "ret"}) => slot = None
    /\ (hist.lastSlotOp = "terminate" /\ lock = None) => slot = None

\* A call took the child, killed and reaped it, and the call made right
\* after it has returned as well.
C3_Witness ==
    \E t1 \in CallIds, t2 \in CallIds :
        /\ Done(t1) /\ calls[t1].took.some /\ calls[t1].waitRes = "ok"
        /\ Done(t2) /\ calls[t2].prevOp = "terminate"
        /\ proc = "reaped"

\* C4: with terminate_backend calls from both trigger paths running
\* concurrently with each other and with the publish, the child's handle is
\* taken out of the slot by at most one call, the child gets at most one
\* kill and one wait, and every other call found the slot empty.
C4_AtMostOneTaker ==
    /\ Cardinality(Takers) <= 1
    /\ hist.killCount <= 1
    /\ hist.waitCount <= 1
    /\ hist.killCount = Cardinality({t \in CallIds : calls[t].killRes # "-"})
    /\ hist.waitCount = Cardinality({t \in CallIds : calls[t].waitRes # "-"})
    /\ \A t \in CallIds :
        (calls[t].pc \in {"kill", "wait", "ret", "done"} /\ t \notin Takers)
            => calls[t].took = None

\* A command call waits on the child it took while the window handler's
\* call is queued on the lock, and another command call has already found
\* the slot empty.
C4_Witness ==
    \E t \in CommandCalls, u \in CommandCalls :
        /\ calls[t].pc = "wait" /\ calls[t].took.some
        /\ calls[WindowCall].pc = "lock"
        /\ Done(u) /\ ~calls[u].took.some

\* C5: shutdown never reports an error.  Every terminate_backend call that
\* has returned returned Ok, whatever kill and wait answered, the slot is
\* empty when it returns, and shutdown_backend never returns its textual
\* failure.
C5_ShutdownNeverFails ==
    \A t \in CallIds :
        /\ Done(t) => calls[t].ret = "Ok"
        /\ calls[t].pc = "ret" => slot = None

\* A shutdown_backend call has returned after both the kill and the wait
\* of the child it took had failed.
C5_Witness ==
    \E t \in CommandCalls :
        /\ Done(t) /\ calls[t].took.some
        /\ calls[t].killRes = "err" /\ calls[t].waitRes = "err"

\* C6: the boot sequence runs spawn, handshake, health, publish, navigate in
\* that order and skips none: handshake polling only after a successful
\* spawn, health probing only with the port the handshake reader returned,
\* the publish only after a successful health probe, and the navigation
\* only after the publish, at most once, to http://127.0.0.1:<port> with
\* the port the reader returned and the health probe used.
C6_BootOrder ==
    /\ hist.hsEver => hist.spawnCount = 1
    /\ hist.healthEver =>
          (hist.hsEver /\ port.some /\ port = hist.hsFirstPort
             /\ healthUrl = HealthUrl(port.val))
    /\ hist.publishCount > 0 => (hist.healthEver /\ hist.windowAtHealth # "-")
    /\ Len(navUrls) <= 1
    /\ navUrls # <<>> =>
          /\ hist.publishCount = 1
          /\ navUrls[1] = [host |-> "127.0.0.1", port |-> hist.hsFirstPort.val,
                           path |-> ""]
          /\ healthUrl.port = navUrls[1].port
    /\ bootpc = "ready" => (navUrls # <<>> /\ bootChild = None)

\* The boot reached Ready on port 4001, which only the child writes, and
\* the one navigation went to that port.
C6_Witness ==
    /\ bootpc = "ready"
    /\ port = Some(4001)
    /\ navUrls = <<[host |-> "127.0.0.1", port |-> 4001, path |-> ""]>>
    /\ hist.publishCount = 1

\* C7: Failed is absorbing and a run makes one launch attempt: the backend
\* is spawned at most once, and once the boot task has failed it takes no
\* further step (no spawn, no handshake or health polling, no publish, no
\* navigation); the failure is on the diagnostic stream and nowhere else.
C7_FailedAbsorbing ==
    [][/\ hist.spawnCount' <= 1
       /\ bootpc = "failed" =>
            /\ UNCHANGED bootVars
            /\ hist.spawnCount' = hist.spawnCount
            /\ hist.publishCount' = hist.publishCount
            /\ hist.hsEver' = hist.hsEver
            /\ hist.healthEver' = hist.healthEver
       /\ bootpc' = "failed" =>
            /\ bootErr' # "none"
            /\ diag'[Len(diag')] = "Backend boot failed"]_vars

\* The boot failed on the health budget and the application then served a
\* terminate_backend call to its end.
C7_Witness ==
    /\ bootpc = "failed"
    /\ bootErr = "HealthCheckTimeout"
    /\ hist.spawnCount = 1
    /\ \E t \in CallIds : Done(t) /\ calls[t].afterBoot

\* C8: if the main window is unavailable when the health probe succeeds,
\* the boot ends in Failed(PresentationMissing) and no navigation
\* instruction is issued in that run.
C8_PresentationMissing ==
    hist.windowAtHealth = "destroyed" =>
        /\ navUrls = <<>>
        /\ bootpc # "ready"
        /\ bootpc = "failed" => bootErr = "PresentationMissing"

\* The window was already gone when the health probe succeeded and the boot
\* has ended in PresentationMissing, after publishing the handle.
C8_Witness ==
    /\ hist.windowAtHealth = "destroyed"
    /\ bootpc = "failed"
    /\ bootErr = "PresentationMissing"
    /\ hist.publishCount = 1

\* The places that hold the child's handle.
Holders ==
    (IF bootChild.some THEN {"boot"} ELSE {})
        \cup (IF slot.some THEN {"slot"} ELSE {})

\* C9: at most one child and one live handle exist in a run: the backend is
\* spawned at most once, the handle is held by the boot task or by the slot
\* and never by both (and by neither once a terminate call has taken it),
\* and the publish happens at most once and never overwrites a handle
\* already in the slot.
C9_OneChild ==
    /\ hist.spawnCount <= 1
    /\ hist.publishCount <= 1
    /\ ~hist.overwrote
    /\ Cardinality(Holders) <= 1
    /\ ~(Holders # {} /\ Takers # {})
    /\ proc = "none" <=> hist.spawnCount = 0

\* The handle has been published: the slot holds it and the boot task no
\* longer does.
C9_Witness ==
    /\ hist.publishCount = 1
    /\ slot = Some(1)
    /\ bootChild = None
    /\ proc = "running"

\* C10: if the handshake file is first found readable with a parsable
\* {"port": p} on read attempt k+1 (0 <= k < 50), wait_for_port_file
\* has returned p right after that attempt, having made k+1 reads and k
\* delays; as long as it is still polling, or once it has timed out, no
\* attempt has found such a file.
C10_HandshakeReturnsAtOnce ==
    /\ bootpc \in {"hs_read", "hs_sleep"} => hist.hsFirstOk = 0
    /\ bootErr = "HandshakeTimeout" => hist.hsFirstOk = 0
    /\ bootpc = "hs_done" =>
          /\ hist.hsFirstOk \in 1..HandshakeAttempts
          /\ hsReads = hist.hsFirstOk
          /\ hsSleeps = hist.hsFirstOk - 1
          /\ port = hist.hsFirstPort

\* The child wrote {"port": 4000} after the 10th read attempt and the
\* reader returned 4000 on the 11th.
C10_Witness ==
    /\ bootpc = "hs_done"
    /\ hsReads = 11
    /\ hsSleeps = 10
    /\ port = Some(4000)
    /\ file = FileJson(4000)

\* C11: while every read attempt finds the handshake file missing,
\* unreadable or unparsable, wait_for_port_file goes on polling; it fails
\* with HandshakeTimeout, carrying the handshake path, after exactly 50
\* attempts and 50 delays, never earlier and never with a 51st attempt.
C11_HandshakeTimeout ==
    /\ hsReads <= HandshakeAttempts
    /\ hsSleeps <= HandshakeAttempts
    /\ bootpc = "hs_read" => hsSleeps = hsReads /\ hsReads < HandshakeAttempts
    /\ bootpc = "hs_sleep" => hsSleeps = hsReads - 1
    /\ hsSleeps = HandshakeAttempts => bootErr = "HandshakeTimeout"
    /\ bootErr = "HandshakeTimeout" =>
          /\ bootpc = "failed"
          /\ hist.hsFirstOk = 0
          /\ hsReads = HandshakeAttempts
          /\ hsSleeps = HandshakeAttempts
          /\ errInfo.path = HandshakePath(env.os)

\* The reader timed out after 50 attempts on a file that was there but
\* never parsable.
C11_Witness ==
    /\ bootErr = "HandshakeTimeout"
    /\ hsReads = HandshakeAttempts
    /\ hsSleeps = HandshakeAttempts
    /\ file \in {FilePartial, FileJson(70000)}
    /\ errInfo.path = <<"tmp", "hudson_port.json">>

\* C12: if the first k polls of wait_for_health (0 <= k < 40) end in a
\* connection failure, a timeout or a non-2xx status and poll k+1 gets a
\* 2xx response, wait_for_health returns Ok on poll k+1, after k+1
\* requests and k delays, and sends no further request.
C12_HealthReturnsAtOnce ==
    /\ bootpc \in {"health_poll", "health_sleep"} => hist.healthFirstOk = 0
    /\ bootErr = "HealthCheckTimeout" => hist.healthFirstOk = 0
    /\ bootpc = "health_done" =>
          /\ hist.healthFirstOk \in 1..HealthAttempts
          /\ healthPolls = hist.healthFirstOk
          /\ healthSleeps = hist.healthFirstOk - 1

\* Five polls failed and the sixth got a 2xx: the prober returned there.
C12_Witness ==
    /\ bootpc = "health_done"
    /\ hist.healthFirstOk = 6
    /\ healthPolls = 6
    /\ healthSleeps = 5

\* C13: if no poll of wait_for_health gets a 2xx response, it fails with
\* HealthCheckTimeout, carrying the probed url, after exactly 40 requests:
\* no failed poll ends the probe before the 40th and no 41st is sent.
C13_HealthTimeout ==
    /\ healthPolls <= HealthAttempts
    /\ healthSleeps <= HealthAttempts
    /\ bootpc = "health_poll" =>
          healthSleeps = healthPolls /\ healthPolls < HealthAttempts
    /\ bootpc = "health_sleep" => healthSleeps = healthPolls - 1
    /\ healthSleeps = HealthAttempts => bootErr = "HealthCheckTimeout"
    /\ bootErr = "HealthCheckTimeout" =>
          /\ bootpc = "failed"
          /\ healthPolls = HealthAttempts
          /\ healthSleeps = HealthAttempts
          /\ errInfo.url = HealthUrl(port.val)

\* The probe of port 4001 timed out after 40 requests.
C13_Witness ==
    /\ bootErr = "HealthCheckTimeout"
    /\ healthPolls = HealthAttempts
    /\ errInfo.url = [host |-> "127.0.0.1", port |-> 4001, path |-> "/healthz"]

\* The candidate list as C14 describes it: the override whenever it is set
\* and not blank, then the bundled locations, then the development paths.
OverrideWhenSet(e) ==
    (IF e.bin.st # "unset" /\ ~IsBlank(e.bin.val) THEN <<e.bin.val>> ELSE <<>>)
        \o BundledCandidates(e.resourceDir) \o DevCandidates(e.os)

\* C14: the executable spawn_backend launches is the existing candidate of
\* lowest index in the list made of the non-blank HUDSON_BACKEND_BIN
\* override, the bundled-resource locations and the development paths, in
\* that order, whatever later candidates also exist.
C14_FirstExistingCandidate ==
    launch.built =>
        \E i \in 1..Len(OverrideWhenSet(env)) :
            /\ launch.exe = OverrideWhenSet(env)[i]
            /\ launch.exe \in env.exists
            /\ \A j \in 1..(i - 1) : OverrideWhenSet(env)[j] \notin env.exists

\* C15: if no candidate path exists, the boot ends in Failed with
\* BackendNotFound carrying the complete ordered candidate list; no process
\* was spawned, the slot is empty, and neither the handshake file nor the
\* health endpoint was ever polled.
C15_BackendNotFound ==
    /\ (bootpc # "start"
            /\ \A i \in 1..Len(CandidateBackendPaths(env)) :
                    CandidateBackendPaths(env)[i] \notin env.exists)
          => bootErr = "BackendNotFound"
    /\ bootErr = "BackendNotFound" =>
          /\ bootpc = "failed"
          /\ errInfo.tried = EnvCandidate(env.bin)
                                \o BundledCandidates(env.resourceDir)
                                \o DevCandidates(env.os)
          /\ launch = NoLaunch
          /\ hist.spawnCount = 0
          /\ proc = "none"
          /\ bootChild = None
          /\ slot = None
          /\ hist.publishCount = 0
          /\ ~hist.hsEver /\ hsReads = 0 /\ hsSleeps = 0
          /\ ~hist.healthEver /\ healthPolls = 0 /\ healthSleeps = 0
          /\ navUrls = <<>>

\* On Windows with the override and a resource directory set and no file
\* on disk, the error lists all 12 candidates, and a terminate call has
\* found the slot empty.
C15_Witness ==
    /\ bootErr = "BackendNotFound"
    /\ env.os = "windows"
    /\ Len(errInfo.tried) = 12
    /\ errInfo.tried[1] = <<"opt_hudson">>
    /\ errInfo.tried[2] = <<"App", "Contents", "MacOS",
                            "hudson_macos_arm-aarch64-apple-darwin">>
    /\ errInfo.tried[12] =
          <<"..", "_build", "prod", "rel", "hudson", "bin", "hudson.bat">>
    /\ \E t \in CallIds : calls[t].pc = "done"

\* C16: the launch arguments are the whitespace-split tokens of
\* HUDSON_BACKEND_ARGS whenever it is set, whatever the executable;
\* otherwise none when the executable path contains burrito_out, and the
\* single argument "foreground" in every other case.
C16_LaunchArgs ==
    launch.built =>
        launch.args =
            IF env.args.st # "unset"
            THEN SplitWhitespace(env.args.val)
            ELSE IF ContainsBurrito(launch.exe)
                 THEN <<>>
                 ELSE << <<"foreground">> >>

\* C17: the Command built by spawn_backend always carries
\* HUDSON_ENABLE_NEON; its value is "false" when the supervisor's variable
\* is unset, and a value other than "false" reaches the child only when
\* the supervisor's variable is explicitly set to it.
C17_NeonAlwaysSet ==
    launch.built =>
        /\ launch.neon.some
        /\ env.neon.st = "unset" => launch.neon.val = <<"false">>
        /\ launch.neon.val # <<"false">> =>
              env.neon.st = "set" /\ env.neon.val = launch.neon.val

\* Unset in the supervisor, "false" for the child of a bundled binary.
C17_Witness ==
    /\ launch.built
    /\ env.neon = EnvUnset
    /\ launch.neon = Some(<<"false">>)
    /\ launch.exe = <<"App", "Contents", "Resources", "binaries",
                      "hudson_backend">>
    /\ proc = "running"

PrePublishErrors ==
    {"BackendNotFound", "SpawnFailed", "HandshakeTimeout", "ClientBuildFailed",
     "HealthCheckTimeout"}

PostPublishErrors == {"PresentationMissing", "NavigationFailed"}

\* C18 as stated: whenever the boot task has ended in Failed it has not
\* written the slot, and a handle is in the slot only when boot has
\* published it and not failed.
C18_FailedOnlyBeforePublish ==
    /\ bootpc = "failed" => hist.publishCount = 0
    /\ slot.some => bootpc \in {"navigate", "ready"}

\* C18 amended: a boot that failed while launching, awaiting the handshake
\* or awaiting health has not written the slot, which is then empty; a
\* boot that failed with PresentationMissing or NavigationFailed failed
\* after its single publish; a handle is in the slot only after that
\* publish.
C18_FailedBeforeOrAfterPublish ==
    /\ bootpc = "failed" <=> bootErr \in PrePublishErrors \cup PostPublishErrors
    /\ bootErr \in PrePublishErrors => hist.publishCount = 0 /\ slot = None
    /\ bootErr \in PostPublishErrors => hist.publishCount = 1
    /\ slot.some =>
          /\ hist.publishCount = 1
          /\ bootpc \in {"navigate", "ready"} \/ bootErr \in PostPublishErrors

\* The boot failed on the navigation command with the handle in the slot.
C18_Witness ==
    /\ bootpc = "failed"
    /\ bootErr = "NavigationFailed"
    /\ slot = Some(1)
    /\ proc = "running"

\* C19: the port that is health-probed and navigated to was written into
\* the handshake file by the child this boot spawned, also when a file
\* left by an earlier run was there when the boot started.
C19_PortFromThisChild ==
    /\ healthUrl # NoUrl => healthUrl.port \in WrittenPorts
    /\ \A i \in 1..Len(navUrls) : navUrls[i].port \in WrittenPorts

\* C20: the Mutex is only ever held by a terminate_backend call that is
\* between its lock and its return, never by the boot task across a step;
\* and every terminate_backend call that has been issued, whatever the boot
\* task is doing, eventually acquires the lock and returns: from some point
\* on every call is either not issued or has returned.
C20_TerminateReturns ==
    /\ [](lock.some =>
            /\ lock.val \in CallIds
            /\ calls[lock.val].pc \in {"kill", "wait", "ret"})
    /\ <>[](\A t \in CallIds : calls[t].pc \in {"idle", "done"})

\* The close handler's call has returned while the boot task is still
\* probing health, and a command call issued during the probe holds the
\* lock.
C20_Witness ==
    /\ bootpc = "health_sleep"
    /\ calls[WindowCall].pc = "done"
    /\ lock = Some(1)
    /\ calls[1].pc = "ret"
    /\ calls[2].pc = "lock"

====
